---- MODULE Spec2Model ----
(***************************************************************************)
(* Intern tracker: the tracker page (variant A, src/unnamed/part_000) and  *)
(* the CRUD page (variant B, src/client/pages/Index.tsx).                  *)
(*                                                                         *)
(* A string the user types (name, email, search text) is a sequence of     *)
(* one-character strings, so that trim, toLowerCase and includes are       *)
(* computed rather than assumed.  An enum literal is a TLA+ string, and    *)
(* its text is EnumText.  A record id `${Date.now()}-${i}` is the record   *)
(* [ts |-> Date.now(), idx |-> i].                                         *)
(***************************************************************************)
EXTENDS Integers, Sequences, FiniteSets, TLC

VARIABLES
  interns,      \* variant A: useState<Intern[]>            (part_000:167)
  search,       \* variant A: search text                   (part_000:170)
  filterSheet,  \* variant A: "All" or a SheetStatus        (part_000:171)
  filterPerf,   \* variant A: "All" or a Performance        (part_000:172)
  page,         \* variant A: current page, 1-based         (part_000:175)
  pageSize,     \* variant A: rows per page                 (part_000:176)
  now,          \* Date.now() as last read
  internsB,     \* variant B: useState<Intern[]>            (Index.tsx:121)
  searchB,      \* variant B: search text                   (Index.tsx:122)
  dept,         \* variant B: "All" or a department         (Index.tsx:123)
  status,       \* variant B: "All" or a Status             (Index.tsx:124)
  open,         \* variant B: the add-intern dialog is open (Index.tsx:159)
  form,         \* variant B: the add-intern form           (Index.tsx:160)
  last,         \* history: the handler that ran last, with its arguments
  prev,         \* history: variant A's state before that handler ran
  nops          \* history: number of handlers run so far

varsA == <<interns, search, filterSheet, filterPerf, page, pageSize, now>>
varsB == <<internsB, searchB, dept, status, open, form>>
vars == <<interns, search, filterSheet, filterPerf, page, pageSize, now,
          internsB, searchB, dept, status, open, form, last, prev, nops>>

(***************************************************************************)
(* Bounds of the model.  The source seeds 550 records, adds 50 per batch   *)
(* and offers 25 / 50 / 100 rows per page; the model keeps the ratios of   *)
(* the page sizes (1 : 2 : 4) and scales the counts down.                  *)
(***************************************************************************)
SeedCount == 3
BatchCount == 2
MaxBatches == 1
PageUnit == 1
MaxOps == 2
MaxTotal == 210
MaxStore == 2
MaxOpsB == 4

Null == "null"

\* ------------------------------------------------------------ strings

UpperCase == <<"A","B","C","D","E","F","G","H","I","J","K","L","M",
               "N","O","P","Q","R","S","T","U","V","W","X","Y","Z">>
LowerCase == <<"a","b","c","d","e","f","g","h","i","j","k","l","m",
               "n","o","p","q","r","s","t","u","v","w","x","y","z">>

ToLowerChar(c) ==
  IF \E k \in 1..26 : UpperCase[k] = c
  THEN LowerCase[CHOOSE k \in 1..26 : UpperCase[k] = c]
  ELSE c

toLowerCase(s) == [k \in 1..Len(s) |-> ToLowerChar(s[k])]

RECURSIVE trimStart(_)
trimStart(s) ==
  IF s # <<>> /\ Head(s) = " " THEN trimStart(Tail(s)) ELSE s

RECURSIVE trimEnd(_)
trimEnd(s) ==
  IF s # <<>> /\ s[Len(s)] = " " THEN trimEnd(SubSeq(s, 1, Len(s) - 1)) ELSE s

trim(s) == trimEnd(trimStart(s))

includes(s, q) ==
  \E k \in 0..(Len(s) - Len(q)) : SubSeq(s, k + 1, k + Len(q)) = q

\* The text of an enum literal, and the empty string for null (x ?? "").
EnumText(x) ==
  CASE x = "Resign"     -> <<"R","e","s","i","g","n">>
    [] x = "Warning"    -> <<"W","a","r","n","i","n","g">>
    [] x = "Terminated" -> <<"T","e","r","m","i","n","a","t","e","d">>
    [] x = "Relocated"  -> <<"R","e","l","o","c","a","t","e","d">>
    [] x = "Engineering" -> <<"E","n","g","i","n","e","e","r","i","n","g">>
    [] x = "Design"     -> <<"D","e","s","i","g","n">>
    [] x = "Marketing"  -> <<"M","a","r","k","e","t","i","n","g">>
    [] x = "Product"    -> <<"P","r","o","d","u","c","t">>
    [] x = "HR"         -> <<"H","R">>
    [] OTHER            -> <<>>

\* ------------------------------------------------------------ variant A types

StatusActivityT == {"Active", "Inactive", "Leave"}
YesNo == {"Yes", "No"}
PerformanceT == {"Good", "Weak"}
SegregationT == {"Resign", "Warning", "Terminated", "Relocated"}
SheetStatusT == {"Green", "Red", "Black"}

\* ------------------------------------------------------------ generateSeedInterns

(***************************************************************************)
(* One iteration's Math.random() draws, each reduced to the outcome of the *)
(* comparison the code makes with it; count is Math.floor(random * 120).   *)
(***************************************************************************)
GenDraws ==
  { [active |-> TRUE,  excel |-> TRUE,  ai |-> TRUE,  dm |-> TRUE,  count |-> 119,
     perfGood |-> FALSE, seg |-> Null,         sheetRed |-> FALSE, rep |-> FALSE],
    [active |-> FALSE, excel |-> FALSE, ai |-> FALSE, dm |-> FALSE, count |-> 0,
     perfGood |-> FALSE, seg |-> "Terminated", sheetRed |-> TRUE,  rep |-> TRUE],
    [active |-> TRUE,  excel |-> FALSE, ai |-> FALSE, dm |-> TRUE,  count |-> 110,
     perfGood |-> TRUE,  seg |-> "Warning",    sheetRed |-> TRUE,  rep |-> FALSE],
    [active |-> TRUE,  excel |-> TRUE,  ai |-> FALSE, dm |-> FALSE, count |-> 61,
     perfGood |-> FALSE, seg |-> Null,         sheetRed |-> FALSE, rep |-> FALSE] }

generateIntern(d, t, i) ==
  LET performance ==
        IF d.count > 60 /\ d.ai /\ d.dm THEN "Good"
        ELSE IF d.perfGood THEN "Good" ELSE "Weak"
      sheetStatus ==
        IF d.seg = "Terminated" \/ d.seg = "Relocated" THEN "Black"
        ELSE IF d.excel /\ (d.ai \/ d.dm) THEN "Green"
        ELSE IF d.sheetRed THEN "Red" ELSE "Green"
  IN [ id |-> [ts |-> t, idx |-> i],
       name |-> <<>>,
       email |-> <<>>,
       statusActivity |-> IF d.active THEN "Active" ELSE "Inactive",
       excelSubmitted |-> IF d.excel THEN "Yes" ELSE "No",
       aiChatAdded |-> d.ai,
       dataMiningGC |-> d.dm,
       speakersCount |-> d.count,
       speakersTarget |-> 100,
       performance |-> performance,
       segregation |-> d.seg,
       sheetStatus |-> sheetStatus,
       dataRepurposed |-> IF d.rep THEN "Yes" ELSE "No" ]

\* draws[k] are the draws of iteration i = k - 1; t is Date.now().
generateSeedInterns(draws, t) ==
  [k \in 1..Len(draws) |-> generateIntern(draws[k], t, k - 1)]

\* ------------------------------------------------------------ variant A views

Min(a, b) == IF a < b THEN a ELSE b
Max(a, b) == IF a > b THEN a ELSE b

\* Array.prototype.filter
RECURSIVE SelectSeqOf(_, _)
SelectSeqOf(s, keep) ==
  IF s = <<>> THEN <<>>
  ELSE IF Head(s) \in keep THEN <<Head(s)>> \o SelectSeqOf(Tail(s), keep)
       ELSE SelectSeqOf(Tail(s), keep)

\* Number(id.split("-")[1] || 0): the text after the first dash is idx.
sortKey(r) == r.id.idx

\* x goes after every element whose key is >= its own: the comparator
\* (a, b) => key(b) - key(a) under a stable Array.prototype.sort.
RECURSIVE insertDesc(_, _)
insertDesc(sorted, x) ==
  IF sorted = <<>> THEN <<x>>
  ELSE IF sortKey(Head(sorted)) - sortKey(x) < 0
       THEN <<x>> \o sorted
       ELSE <<Head(sorted)>> \o insertDesc(Tail(sorted), x)

RECURSIVE sortDesc(_)
sortDesc(s) ==
  IF s = <<>> THEN <<>>
  ELSE insertDesc(sortDesc(SubSeq(s, 1, Len(s) - 1)), s[Len(s)])

matchesSheet(i, fs) == IF fs = "All" THEN TRUE ELSE i.sheetStatus = fs
matchesPerf(i, fp) == IF fp = "All" THEN TRUE ELSE i.performance = fp
\* the search with the segregation field left out
matchesSearch_NameAndEmailOnly(i, text) ==
  LET q == toLowerCase(trim(text))
  IN IF q = <<>> THEN TRUE
     ELSE \/ includes(toLowerCase(i.name), q)
          \/ includes(toLowerCase(i.email), q)

matchesSearch(i, text) ==
  LET q == toLowerCase(trim(text))
  IN IF q = <<>> THEN TRUE
     ELSE \/ includes(toLowerCase(i.name), q)
          \/ includes(toLowerCase(i.email), q)
          \/ includes(toLowerCase(EnumText(i.segregation)), q)

filteredOf(list, text, fs, fp) ==
  LET a == SelectSeqOf(list, {i \in {list[k] : k \in 1..Len(list)} : matchesSheet(i, fs)})
      b == SelectSeqOf(a, {i \in {a[k] : k \in 1..Len(a)} : matchesPerf(i, fp)})
      c == SelectSeqOf(b, {i \in {b[k] : k \in 1..Len(b)} : matchesSearch(i, text)})
  IN sortDesc(c)

filtered == filteredOf(interns, search, filterSheet, filterPerf)

\* Math.ceil(n / size) on integers
CeilDiv(n, size) == (n + size - 1) \div size

totalPagesOf(n, size) == Max(1, CeilDiv(n, size))
totalPages == totalPagesOf(Len(filtered), pageSize)

\* the slice taken from p * size
paginatedOf_OnePageOn(list, p, size) ==
  LET start == p * size
  IN SubSeq(list, start + 1, Min(start + size, Len(list)))

\* Array.prototype.slice(start, start + size), 0 <= start
paginatedOf(list, p, size) ==
  LET start == (p - 1) * size
  IN SubSeq(list, start + 1, Min(start + size, Len(list)))

paginated == paginatedOf(filtered, page, pageSize)

Count(list, keep) == Len(SelectSeqOf(list, keep))
Elems(list) == {list[k] : k \in 1..Len(list)}

summaryOf(list) ==
  LET total == Len(list)
      active == Count(list, {i \in Elems(list) : i.statusActivity = "Active"})
      excelYes == Count(list, {i \in Elems(list) : i.excelSubmitted = "Yes"})
      repurposedYes == Count(list, {i \in Elems(list) : i.dataRepurposed = "Yes"})
  IN [ total |-> total,
       green |-> Count(list, {i \in Elems(list) : i.sheetStatus = "Green"}),
       red |-> Count(list, {i \in Elems(list) : i.sheetStatus = "Red"}),
       black |-> Count(list, {i \in Elems(list) : i.sheetStatus = "Black"}),
       active |-> active,
       inactive |-> total - active,
       excelYes |-> excelYes,
       excelNo |-> total - excelYes,
       tasksCompleted |->
         Count(list, {i \in Elems(list) :
                        i.aiChatAdded /\ i.dataMiningGC
                        /\ i.speakersCount >= i.speakersTarget}),
       good |-> Count(list, {i \in Elems(list) : i.performance = "Good"}),
       weak |-> Count(list, {i \in Elems(list) : i.performance = "Weak"}),
       repurposedYes |-> repurposedYes,
       repurposedNo |-> total - repurposedYes ]

\* the summary taken over the filtered rows
summary_OverFiltered ==
  summaryOf(sortDesc(SelectSeqOf(interns,
    {i \in Elems(interns) : /\ matchesSheet(i, filterSheet)
                            /\ matchesPerf(i, filterPerf)
                            /\ matchesSearch(i, search)})))

summary == summaryOf(interns)

\* ------------------------------------------------------------ variant B store

StatusT == {"Active", "Offer", "Completed", "Offboarded"}
departments == <<"Engineering", "Design", "Marketing", "Product", "HR">>
statuses == <<"Active", "Offer", "Completed", "Offboarded">>

\* startDate is the day number of the ISO date, today being day 0.
seedInterns ==
  << [ id |-> "1",
       name |-> <<"A","v","a"," ","P","a","t","e","l">>,
       email |-> <<"a","v","a",".","p","a","t","e","l","@","e","x","a","m","p","l","e",".","c","o","m">>,
       department |-> "Engineering",
       mentor |-> <<"M","."," ","N","g","u","y","e","n">>,
       startDate |-> 0, status |-> "Active", score |-> 92 ],
     [ id |-> "2",
       name |-> <<"L","i","a","m"," ","J","o","h","n","s","o","n">>,
       email |-> <<"l","i","a","m",".","j","o","h","n","s","o","n","@","e","x","a","m","p","l","e",".","c","o","m">>,
       department |-> "Design",
       mentor |-> <<"S","."," ","K","a","u","r">>,
       startDate |-> 0 - 30, status |-> "Active", score |-> 81 ],
     [ id |-> "3",
       name |-> <<"M","a","y","a"," ","C","h","e","n">>,
       email |-> <<"m","a","y","a",".","c","h","e","n","@","e","x","a","m","p","l","e",".","c","o","m">>,
       department |-> "Marketing",
       mentor |-> <<"R","."," ","D","a","v","i","s">>,
       startDate |-> 0 - 90, status |-> "Completed", score |-> 88 ],
     [ id |-> "4",
       name |-> <<"E","t","h","a","n"," ","G","a","r","c","í","a">>,
       email |-> <<"e","t","h","a","n",".","g","a","r","c","i","a","@","e","x","a","m","p","l","e",".","c","o","m">>,
       department |-> "Engineering",
       mentor |-> <<"K","."," ","B","r","o","w","n">>,
       startDate |-> 0 - 7, status |-> "Offer", score |-> 75 ] >>

\* useState<Omit<Intern, "id">>({...}), and the form addIntern resets to;
\* new Date().toISOString().slice(0, 10) is day 0.
initialForm ==
  [ name |-> <<>>, email |-> <<>>, department |-> departments[1],
    mentor |-> <<>>, startDate |-> 0, status |-> "Active", score |-> 80 ]

\* ------------------------------------------------------------ inputs

\* What the user types into a name or email input.
Names == { <<>>, <<"A","n","n">> }
Emails == { <<>>, <<"a","@","x">> }
\* What the user types into the search box.
Queries == { <<>>, <<" ","A","N"," ">>, <<"w","a","r">> }

\* e.target.value of the speakers-count number input: the empty string, or
\* the decimal text of num / den.
SpeakerEntries ==
  { [empty |-> TRUE,  num |-> 0,    den |-> 1],
    [empty |-> FALSE, num |-> 0 - 3, den |-> 1],
    [empty |-> FALSE, num |-> 199,  den |-> 2],
    [empty |-> FALSE, num |-> 100,  den |-> 1],
    [empty |-> FALSE, num |-> 1001, den |-> 1] }

\* Number(e.target.value || 0), as a fraction
NumberOrZero(e) ==
  IF e.empty THEN [num |-> 0, den |-> 1] ELSE [num |-> e.num, den |-> e.den]

\* Math.floor of a fraction with a positive denominator
Floor(x) == x.num \div x.den

PageSizes == {PageUnit, 2 * PageUnit, 4 * PageUnit}
InitialPageSize == 2 * PageUnit

Digits == <<"0","1","2","3","4","5","6","7","8","9">>

\* String(n), n a natural number
RECURSIVE StringOfNat(_)
StringOfNat(n) ==
  IF n < 10 THEN <<Digits[n + 1]>>
  ELSE StringOfNat(n \div 10) \o <<Digits[(n % 10) + 1]>>

\* Number(v), v a string of decimal digits
RECURSIVE NumberOf(_)
NumberOf(v) ==
  IF v = <<>> THEN 0
  ELSE 10 * NumberOf(SubSeq(v, 1, Len(v) - 1))
       + (CHOOSE d \in 0..9 : Digits[d + 1] = v[Len(v)])

\* The values of the rows-per-page SelectItems
PageSizeOptions == {StringOfNat(n) : n \in PageSizes}

\* ------------------------------------------------------------ exportToCsv

\* The text of a string literal of either variant: EnumText, and the
\* literals that no search reads.
TextOf(x) ==
  CASE x = "Active" -> <<"A","c","t","i","v","e">>
    [] x = "Inactive" -> <<"I","n","a","c","t","i","v","e">>
    [] x = "Leave" -> <<"L","e","a","v","e">>
    [] x = "Yes" -> <<"Y","e","s">>
    [] x = "No" -> <<"N","o">>
    [] x = "Good" -> <<"G","o","o","d">>
    [] x = "Weak" -> <<"W","e","a","k">>
    [] x = "Green" -> <<"G","r","e","e","n">>
    [] x = "Red" -> <<"R","e","d">>
    [] x = "Black" -> <<"B","l","a","c","k">>
    [] x = "Offer" -> <<"O","f","f","e","r">>
    [] x = "Completed" -> <<"C","o","m","p","l","e","t","e","d">>
    [] x = "Offboarded" -> <<"O","f","f","b","o","a","r","d","e","d">>
    [] OTHER -> EnumText(x)

\* String(n), n an integer
StringOfInt(n) == IF n < 0 THEN <<"-">> \o StringOfNat(0 - n) ELSE StringOfNat(n)

\* The ISO date (toISOString().slice(0, 10)) of day d, for a page loaded on
\* 2024-05-31; the days are those the seed and the date input give.
toISODate(d) ==
  CASE d = 0 -> <<"2","0","2","4","-","0","5","-","3","1">>
    [] d = 1 -> <<"2","0","2","4","-","0","6","-","0","1">>
    [] d = 2 -> <<"2","0","2","4","-","0","6","-","0","2">>
    [] d = 7 -> <<"2","0","2","4","-","0","6","-","0","7">>
    [] d = 0 - 7 -> <<"2","0","2","4","-","0","5","-","2","4">>
    [] d = 0 - 30 -> <<"2","0","2","4","-","0","5","-","0","1">>
    [] d = 0 - 90 -> <<"2","0","2","4","-","0","3","-","0","2">>

\* String(x).replaceAll('"', '""')
RECURSIVE replaceAllQuotes(_)
replaceAllQuotes(x) ==
  IF x = <<>> THEN <<>>
  ELSE (IF Head(x) = "\"" THEN <<"\"", "\"">> ELSE <<Head(x)>>)
       \o replaceAllQuotes(Tail(x))

\* the cell written with its quotes left single
csvCell_NoDoubling(x) == <<"\"">> \o x \o <<"\"">>

\* `"${String(x).replaceAll('"', '""')}"`
csvCell(x) == <<"\"">> \o replaceAllQuotes(x) \o <<"\"">>

\* Array.prototype.join
RECURSIVE join(_, _)
join(parts, sep) ==
  IF parts = <<>> THEN <<>>
  ELSE IF Len(parts) = 1 THEN parts[1]
  ELSE parts[1] \o sep \o join(Tail(parts), sep)

\* [header, ...body].map((r) => r.map(cell).join(",")).join("\n")
csvOf(table) ==
  join([k \in 1..Len(table) |->
          join([j \in 1..Len(table[k]) |-> csvCell(table[k][j])], <<",">>)],
       <<"\n">>)

headerA ==
  << <<"N","a","m","e">>,
     <<"E","m","a","i","l">>,
     <<"S","t","a","t","u","s">>,
     <<"E","x","c","e","l","S","u","b","m","i","t","t","e","d">>,
     <<"A","I","C","h","a","t","A","d","d","e","d">>,
     <<"D","a","t","a","M","i","n","i","n","g","G","C">>,
     <<"S","p","e","a","k","e","r","s","C","o","u","n","t">>,
     <<"P","e","r","f","o","r","m","a","n","c","e">>,
     <<"S","e","g","r","e","g","a","t","i","o","n">>,
     <<"S","h","e","e","t","S","t","a","t","u","s">>,
     <<"D","a","t","a","R","e","p","u","r","p","o","s","e","d">> >>

bodyRowA(r) ==
  << r.name, r.email, TextOf(r.statusActivity), TextOf(r.excelSubmitted),
     IF r.aiChatAdded THEN TextOf("Yes") ELSE TextOf("No"),
     IF r.dataMiningGC THEN TextOf("Yes") ELSE TextOf("No"),
     StringOfInt(r.speakersCount), TextOf(r.performance),
     IF r.segregation = Null THEN <<>> ELSE TextOf(r.segregation),
     TextOf(r.sheetStatus), TextOf(r.dataRepurposed) >>

\* variant A's exportToCsv: the text of the Blob
exportToCsv(rows) ==
  csvOf(<<headerA>> \o [k \in 1..Len(rows) |-> bodyRowA(rows[k])])

headerB ==
  << <<"N","a","m","e">>,
     <<"E","m","a","i","l">>,
     <<"D","e","p","a","r","t","m","e","n","t">>,
     <<"M","e","n","t","o","r">>,
     <<"S","t","a","r","t"," ","D","a","t","e">>,
     <<"S","t","a","t","u","s">>,
     <<"S","c","o","r","e">> >>

bodyRowB(r) ==
  << r.name, r.email, TextOf(r.department), r.mentor, toISODate(r.startDate),
     TextOf(r.status), StringOfInt(r.score) >>

\* variant B's exportToCsv: the text of the Blob
exportToCsvB(rows) ==
  csvOf(<<headerB>> \o [k \in 1..Len(rows) |-> bodyRowB(rows[k])])

\* ------------------------------------------------------------ history

NoId == [ts |-> 0, idx |-> 0]

Snapshot ==
  [ interns |-> interns, search |-> search, filterSheet |-> filterSheet,
    filterPerf |-> filterPerf, page |-> page, pageSize |-> pageSize,
    totalPages |-> totalPages,
    internsB |-> internsB, searchB |-> searchB, dept |-> dept,
    status |-> status, open |-> open, form |-> form,
    last |-> last, before |-> prev.interns ]

\* prev before any handler has run
NoSnapshot ==
  [ interns |-> <<>>, search |-> <<>>, filterSheet |-> "All",
    filterPerf |-> "All", page |-> 1, pageSize |-> InitialPageSize,
    totalPages |-> 1,
    internsB |-> <<>>, searchB |-> <<>>, dept |-> "All",
    status |-> "All", open |-> FALSE, form |-> initialForm,
    last |-> [op |-> "none", id |-> NoId, arg |-> Null], before |-> <<>> ]

Record(op, id, arg) ==
  /\ nops' = nops + 1
  /\ last' = [op |-> op, id |-> id, arg |-> arg]
  /\ prev' = Snapshot

\* ------------------------------------------------------------ variant A handlers

\* prev.map((p) => (p.id === id ? updated[k] : p)): updated[k] is what the
\* handler makes of list[k].
MapById(list, id, updated) ==
  [k \in 1..Len(list) |-> IF list[k].id = id THEN updated[k] ELSE list[k]]

toggleAiChatOn(p) == [p EXCEPT !.aiChatAdded = ~p.aiChatAdded]
toggleDataMiningOn(p) == [p EXCEPT !.dataMiningGC = ~p.dataMiningGC]

\* updateSpeakers with the segregation test dropped
updateSpeakersOn_NoSegregationTest(p, count) ==
  LET updated == [p EXCEPT !.speakersCount = Max(0, Min(1000, Floor(count)))]
  IN IF updated.speakersCount >= updated.speakersTarget
     THEN [updated EXCEPT !.sheetStatus = "Green"]
     ELSE updated

\* updateSpeakers with > for >=
updateSpeakersOn_StrictlyAbove(p, count) ==
  LET updated == [p EXCEPT !.speakersCount = Max(0, Min(1000, Floor(count)))]
  IN IF /\ updated.speakersCount > updated.speakersTarget
        /\ updated.segregation \notin {"Terminated", "Relocated"}
     THEN [updated EXCEPT !.sheetStatus = "Green"]
     ELSE updated

\* updateSpeakers with the upper clamp dropped
updateSpeakersOn_NoUpperClamp(p, count) ==
  LET updated == [p EXCEPT !.speakersCount = Max(0, Floor(count))]
  IN IF /\ updated.speakersCount >= updated.speakersTarget
        /\ updated.segregation \notin {"Terminated", "Relocated"}
     THEN [updated EXCEPT !.sheetStatus = "Green"]
     ELSE updated

\* updateSpeakers that also takes Green away below the target
updateSpeakersOn_RedBelowTarget(p, count) ==
  LET updated == [p EXCEPT !.speakersCount = Max(0, Min(1000, Floor(count)))]
  IN IF updated.segregation \in {"Terminated", "Relocated"} THEN updated
     ELSE IF updated.speakersCount >= updated.speakersTarget
          THEN [updated EXCEPT !.sheetStatus = "Green"]
          ELSE [updated EXCEPT !.sheetStatus = "Red"]

updateSpeakersOn(p, count) ==
  LET updated == [p EXCEPT !.speakersCount = Max(0, Min(1000, Floor(count)))]
  IN IF /\ updated.speakersCount >= updated.speakersTarget
        /\ \/ updated.segregation = Null
           \/ /\ updated.segregation # "Terminated"
              /\ updated.segregation # "Relocated"
     THEN [updated EXCEPT !.sheetStatus = "Green"]
     ELSE updated

setSheetStatusOn(p, v) == [p EXCEPT !.sheetStatus = v]
setStatusActivityOn(p, s) == [p EXCEPT !.statusActivity = s]
\* setExcelSubmitted that turns the sheet Green on Yes
setExcelSubmittedOn_TurnsGreen(p, v) ==
  IF v = "Yes" THEN [p EXCEPT !.excelSubmitted = v, !.sheetStatus = "Green"]
  ELSE [p EXCEPT !.excelSubmitted = v]

setExcelSubmittedOn(p, v) == [p EXCEPT !.excelSubmitted = v]
setDataRepurposedOn(p, v) == [p EXCEPT !.dataRepurposed = v]
setPerformanceOn(p, v) == [p EXCEPT !.performance = v]

\* setSegregation forcing Black for Terminated only
setSegregationOn_TerminatedOnly(p, v) ==
  LET updated == [p EXCEPT !.segregation = v]
  IN IF v = "Terminated"
     THEN [updated EXCEPT !.sheetStatus = "Black"]
     ELSE updated

setSegregationOn(p, v) ==
  LET updated == [p EXCEPT !.segregation = v]
  IN IF v = "Terminated" \/ v = "Relocated"
     THEN [updated EXCEPT !.sheetStatus = "Black"]
     ELSE updated

setNameOn(p, name) == [p EXCEPT !.name = name]
setEmailOn(p, email) == [p EXCEPT !.email = email]

\* The ids of the rows the table renders: every inline control calls its
\* handler with the id of its own row.
VisibleIds == {paginated[k].id : k \in 1..Len(paginated)}
VisibleRows == {paginated[k] : k \in 1..Len(paginated)}

ViewUnchanged == UNCHANGED <<search, filterSheet, filterPerf, page, pageSize, now>>

toggleAiChat(id) ==
  /\ Record("toggleAiChat", id, Null)
  /\ interns' = MapById(interns, id,
                         [k \in 1..Len(interns) |-> toggleAiChatOn(interns[k])])
  /\ ViewUnchanged /\ UNCHANGED varsB

toggleDataMining(id) ==
  /\ Record("toggleDataMining", id, Null)
  /\ interns' = MapById(interns, id,
                         [k \in 1..Len(interns) |-> toggleDataMiningOn(interns[k])])
  /\ ViewUnchanged /\ UNCHANGED varsB

updateSpeakers(id, entry) ==
  /\ Record("updateSpeakers", id, entry)
  /\ interns' = MapById(interns, id,
                         [k \in 1..Len(interns) |-> updateSpeakersOn(interns[k], NumberOrZero(entry))])
  /\ ViewUnchanged /\ UNCHANGED varsB

setSheetStatus(id, v) ==
  /\ Record("setSheetStatus", id, v)
  /\ interns' = MapById(interns, id,
                         [k \in 1..Len(interns) |-> setSheetStatusOn(interns[k], v)])
  /\ ViewUnchanged /\ UNCHANGED varsB

setStatusActivity(id, v) ==
  /\ Record("setStatusActivity", id, v)
  /\ interns' = MapById(interns, id,
                         [k \in 1..Len(interns) |-> setStatusActivityOn(interns[k], v)])
  /\ ViewUnchanged /\ UNCHANGED varsB

setExcelSubmitted(id, v) ==
  /\ Record("setExcelSubmitted", id, v)
  /\ interns' = MapById(interns, id,
                         [k \in 1..Len(interns) |-> setExcelSubmittedOn(interns[k], v)])
  /\ ViewUnchanged /\ UNCHANGED varsB

setDataRepurposed(id, v) ==
  /\ Record("setDataRepurposed", id, v)
  /\ interns' = MapById(interns, id,
                         [k \in 1..Len(interns) |-> setDataRepurposedOn(interns[k], v)])
  /\ ViewUnchanged /\ UNCHANGED varsB

setPerformance(id, v) ==
  /\ Record("setPerformance", id, v)
  /\ interns' = MapById(interns, id,
                         [k \in 1..Len(interns) |-> setPerformanceOn(interns[k], v)])
  /\ ViewUnchanged /\ UNCHANGED varsB

setSegregation(id, v) ==
  /\ Record("setSegregation", id, v)
  /\ interns' = MapById(interns, id,
                         [k \in 1..Len(interns) |-> setSegregationOn(interns[k], v)])
  /\ ViewUnchanged /\ UNCHANGED varsB

setName(id, name) ==
  /\ Record("setName", id, name)
  /\ interns' = MapById(interns, id,
                         [k \in 1..Len(interns) |-> setNameOn(interns[k], name)])
  /\ ViewUnchanged /\ UNCHANGED varsB

setEmail(id, email) ==
  /\ Record("setEmail", id, email)
  /\ interns' = MapById(interns, id,
                         [k \in 1..Len(interns) |-> setEmailOn(interns[k], email)])
  /\ ViewUnchanged /\ UNCHANGED varsB

\* the batch put after the records the store holds
addBlankRows_Appends(draws, t) ==
  /\ Len(interns) < SeedCount + MaxBatches * BatchCount
  /\ Record("addBlankRows", NoId, Null)
  /\ now' = t
  /\ interns' = interns \o generateSeedInterns(draws, t)
  /\ UNCHANGED <<search, filterSheet, filterPerf, page, pageSize>>
  /\ UNCHANGED varsB

\* "+ Add 50 Blank Rows": Date.now() has not gone back since it was last read.
addBlankRows(draws, t) ==
  /\ Len(interns) < SeedCount + MaxBatches * BatchCount
  /\ Record("addBlankRows", NoId, Null)
  /\ now' = t
  /\ interns' = generateSeedInterns(draws, t) \o interns
  /\ UNCHANGED <<search, filterSheet, filterPerf, page, pageSize>>
  /\ UNCHANGED varsB

setSearch(text) ==
  /\ Record("setSearch", NoId, text)
  /\ search' = text
  /\ UNCHANGED <<interns, now, filterSheet, filterPerf, page, pageSize>>
  /\ UNCHANGED varsB

setFilterSheet(v) ==
  /\ Record("setFilterSheet", NoId, v)
  /\ filterSheet' = v
  /\ UNCHANGED <<interns, now, search, filterPerf, page, pageSize>>
  /\ UNCHANGED varsB

setFilterPerf(v) ==
  /\ Record("setFilterPerf", NoId, v)
  /\ filterPerf' = v
  /\ UNCHANGED <<interns, now, search, filterSheet, page, pageSize>>
  /\ UNCHANGED varsB

\* selectPageSize without setPage(1)
selectPageSize_KeepsPage(v) ==
  /\ Record("selectPageSize", NoId, v)
  /\ pageSize' = NumberOf(v)
  /\ UNCHANGED <<interns, now, search, filterSheet, filterPerf, page>>
  /\ UNCHANGED varsB

\* Rows per page: onValueChange(v) { setPageSize(Number(v)); setPage(1) }
selectPageSize(v) ==
  /\ Record("selectPageSize", NoId, v)
  /\ pageSize' = NumberOf(v)
  /\ page' = 1
  /\ UNCHANGED <<interns, now, search, filterSheet, filterPerf>>
  /\ UNCHANGED varsB

prevPageOf(p) == Max(1, p - 1)
nextPageOf(p, total) == Min(total, p + 1)

clickPrev ==
  /\ Record("clickPrev", NoId, Null)
  /\ page' = prevPageOf(page)
  /\ UNCHANGED <<interns, now, search, filterSheet, filterPerf, pageSize>>
  /\ UNCHANGED varsB

clickNext ==
  /\ Record("clickNext", NoId, Null)
  /\ page' = nextPageOf(page, totalPages)
  /\ UNCHANGED <<interns, now, search, filterSheet, filterPerf, pageSize>>
  /\ UNCHANGED varsB

\* the export of the page on screen
clickExport_CurrentPage ==
  /\ Record("exportToCsv", NoId, exportToCsv(paginated))
  /\ UNCHANGED <<varsA, varsB>>

\* "Export CSV (filtered)": onClick={() => exportToCsv(filtered)}; the text
\* of the download is kept in last.arg.
clickExport ==
  /\ Record("exportToCsv", NoId, exportToCsv(filtered))
  /\ UNCHANGED <<varsA, varsB>>

\* ------------------------------------------------------------ variant A session

Init ==
  /\ now = 1
  /\ \E draws \in [1..SeedCount -> GenDraws] :
       interns = generateSeedInterns(draws, now)
  /\ search = <<>>
  /\ filterSheet = "All"
  /\ filterPerf = "All"
  /\ page = 1
  /\ pageSize = InitialPageSize
  /\ internsB = seedInterns
  /\ searchB = <<>>
  /\ dept = "All"
  /\ status = "All"
  /\ open = FALSE
  /\ form = initialForm
  /\ last = [op |-> "init", id |-> NoId, arg |-> Null]
  /\ prev = NoSnapshot
  /\ nops = 0

\* One handler runs per step; the session is followed for MaxOps handlers.
Budget == nops < MaxOps

Next ==
  \/ Budget /\ \E id \in VisibleIds : toggleAiChat(id)
  \/ Budget /\ \E id \in VisibleIds : toggleDataMining(id)
  \/ Budget /\ \E id \in VisibleIds, e \in SpeakerEntries : updateSpeakers(id, e)
  \/ Budget /\ \E id \in VisibleIds, v \in SheetStatusT : setSheetStatus(id, v)
  \/ Budget /\ \E id \in VisibleIds, v \in {"Active", "Inactive"} : setStatusActivity(id, v)
  \/ Budget /\ \E id \in VisibleIds, v \in YesNo : setExcelSubmitted(id, v)
  \/ Budget /\ \E r \in VisibleRows, v \in YesNo :
       r.sheetStatus = "Black" /\ setDataRepurposed(r.id, v)
  \/ Budget /\ \E id \in VisibleIds, v \in PerformanceT : setPerformance(id, v)
  \/ Budget /\ \E id \in VisibleIds, v \in SegregationT \cup {Null} : setSegregation(id, v)
  \/ Budget /\ \E id \in VisibleIds, n \in Names : setName(id, n)
  \/ Budget /\ \E id \in VisibleIds, e \in Emails : setEmail(id, e)
  \/ Budget /\ \E draws \in [1..BatchCount -> GenDraws], t \in {now, now + 1} :
       addBlankRows(draws, t)
  \/ Budget /\ \E q \in Queries : setSearch(q)
  \/ Budget /\ \E v \in SheetStatusT \cup {"All"} : setFilterSheet(v)
  \/ Budget /\ \E v \in PerformanceT \cup {"All"} : setFilterPerf(v)
  \/ Budget /\ \E v \in PageSizeOptions : selectPageSize(v)
  \/ Budget /\ clickPrev
  \/ Budget /\ clickNext
  \/ Budget /\ clickExport

Spec == Init /\ [][Next]_vars

\* ------------------------------------------------------------ history helpers

Disqualifying == {"Terminated", "Relocated"}

\* The positions of the records the last handler was called for.
Touched == {k \in 1..Len(prev.interns) : prev.interns[k].id = last.id}

\* ------------------------------------------------------------ C1

SegregationImpliesBlack(list) ==
  \A k \in 1..Len(list) :
    list[k].segregation \in Disqualifying => list[k].sheetStatus = "Black"

\* C1 as stated: in every reachable state every record whose segregation is
\* Terminated or Relocated has sheetStatus Black.
C1_BlackInEveryState == SegregationImpliesBlack(interns)

\* C1, amended: the seeded store has the property, and every batch add and
\* every inline edit other than setSheetStatus keeps it.
C1_BlackKeptExceptBySetSheetStatus ==
  (last.op # "setSheetStatus" /\ SegregationImpliesBlack(prev.interns))
    => SegregationImpliesBlack(interns)

\* updateSpeakers reached the target on a Terminated or Relocated record,
\* which is still Black.
C1_Witness ==
  /\ last.op = "updateSpeakers"
  /\ \E k \in Touched :
       /\ interns[k].segregation \in Disqualifying
       /\ interns[k].speakersCount >= interns[k].speakersTarget
       /\ interns[k].sheetStatus = "Black"

\* ------------------------------------------------------------ C2

\* C2: setSegregation(id, v) stores v; Terminated and Relocated force Black,
\* any other value leaves sheetStatus as it was.
C2_SetSegregation ==
  last.op = "setSegregation" =>
    /\ Len(interns) = Len(prev.interns)
    /\ \A k \in Touched :
         /\ interns[k].segregation = last.arg
         /\ last.arg \in Disqualifying => interns[k].sheetStatus = "Black"
         /\ last.arg \notin Disqualifying =>
              interns[k].sheetStatus = prev.interns[k].sheetStatus

\* A Green record was set to Terminated and is Black.
C2_Witness ==
  /\ last.op = "setSegregation"
  /\ last.arg = "Terminated"
  /\ \E k \in Touched :
       /\ prev.interns[k].sheetStatus = "Green"
       /\ interns[k].sheetStatus = "Black"

\* A Terminated or Relocated record was set to Resign, Warning or none, and
\* is still Black.
C2_WitnessStaysBlack ==
  /\ last.op = "setSegregation"
  /\ last.arg \notin Disqualifying
  /\ \E k \in Touched :
       /\ prev.interns[k].segregation \in Disqualifying
       /\ prev.interns[k].sheetStatus = "Black"
       /\ interns[k].sheetStatus = "Black"

\* ------------------------------------------------------------ C3

GreenWhenTargetReached ==
  \A k \in Touched :
    (/\ interns[k].speakersCount >= interns[k].speakersTarget
     /\ interns[k].segregation \notin Disqualifying)
      => interns[k].sheetStatus = "Green"

\* C3 as stated: the stored count is min(1000, max(0, count)) for the count
\* the handler was called with (num / den).
C3_StoresClampedCount ==
  last.op = "updateSpeakers" =>
    LET count == NumberOrZero(last.arg)
    IN /\ \A k \in Touched :
            interns[k].speakersCount * count.den =
              IF count.num < 0 THEN 0
              ELSE IF count.num > 1000 * count.den THEN 1000 * count.den
              ELSE count.num
       /\ GreenWhenTargetReached

\* C3, amended: the stored count is min(1000, max(0, floor(count))); when it
\* is >= speakersTarget and segregation is neither Terminated nor Relocated
\* the record is Green afterwards.
C3_StoresClampedFloor ==
  last.op = "updateSpeakers" =>
    LET n == Floor(NumberOrZero(last.arg))
    IN /\ \A k \in Touched :
            interns[k].speakersCount =
              IF n < 0 THEN 0 ELSE IF n > 1000 THEN 1000 ELSE n
       /\ GreenWhenTargetReached

\* The count was set to exactly the target on a Black record with no
\* disqualifying segregation, and the record is Green.
C3_Witness ==
  /\ last.op = "updateSpeakers"
  /\ \E k \in Touched :
       /\ prev.interns[k].sheetStatus = "Black"
       /\ prev.interns[k].segregation \notin Disqualifying
       /\ interns[k].speakersCount = interns[k].speakersTarget
       /\ interns[k].sheetStatus = "Green"

\* ------------------------------------------------------------ C4

\* C4: every record's speakersCount is an integer in [0, 1000], and an empty
\* entry stores 0.
C4_SpeakersCountInRange ==
  /\ \A k \in 1..Len(interns) : interns[k].speakersCount \in 0..1000
  /\ (last.op = "updateSpeakers" /\ last.arg.empty) =>
       \A k \in Touched : interns[k].speakersCount = 0

\* An entry above 1000 was stored as 1000.
C4_Witness ==
  /\ last.op = "updateSpeakers"
  /\ ~last.arg.empty
  /\ last.arg.num > 1000 * last.arg.den
  /\ \E k \in Touched : interns[k].speakersCount = 1000

\* A negative entry, and an empty one, were stored as 0.
C4_WitnessNegative ==
  /\ last.op = "updateSpeakers"
  /\ ~last.arg.empty /\ last.arg.num < 0
  /\ \E k \in Touched : interns[k].speakersCount = 0 /\ prev.interns[k].speakersCount > 0

C4_WitnessEmpty ==
  /\ last.op = "updateSpeakers"
  /\ last.arg.empty
  /\ \E k \in Touched : interns[k].speakersCount = 0 /\ prev.interns[k].speakersCount > 0

\* ------------------------------------------------------------ C5

\* The batch that made the record at position k of the store: 0 is the
\* seed, and each batch add puts its rows before the older ones.
BatchOf(k) ==
  IF k > Len(interns) - SeedCount THEN 0
  ELSE ((Len(interns) - SeedCount - k) \div BatchCount) + 1

CreatedLater(k1, k2) ==
  \/ BatchOf(k1) > BatchOf(k2)
  \/ BatchOf(k1) = BatchOf(k2) /\ interns[k1].id.idx > interns[k2].id.idx

UniqueIds ==
  \A k1, k2 \in 1..Len(interns) : interns[k1].id = interns[k2].id => k1 = k2

PositionOf(r) == CHOOSE k \in 1..Len(interns) : interns[k].id = r.id

\* C5: in the filtered view a record created later stands before every
\* record created earlier (stated for stores whose ids tell records apart).
C5_RecencyOrder ==
  UniqueIds =>
    \A a, b \in 1..Len(filtered) :
      a < b => ~CreatedLater(PositionOf(filtered[b]), PositionOf(filtered[a]))

\* ------------------------------------------------------------ C6

\* C6: 1 <= page <= totalPages in every reachable state.
C6_PageWithinTotalPages == 1 <= page /\ page <= totalPages

\* ------------------------------------------------------------ C7

\* C7: selecting a page size sets pageSize to the selected value and page
\* to 1, and changes neither the store nor the search and filter selections.
C7_SelectPageSize ==
  last.op = "selectPageSize" =>
    /\ StringOfNat(pageSize) = last.arg
    /\ page = 1
    /\ interns = prev.interns
    /\ search = prev.search
    /\ filterSheet = prev.filterSheet
    /\ filterPerf = prev.filterPerf

\* The page size was changed while on a later page.
C7_Witness ==
  /\ last.op = "selectPageSize"
  /\ prev.page > 1
  /\ pageSize # prev.pageSize
  /\ page = 1

\* ------------------------------------------------------------ C10

ViewHandlers ==
  {"setSearch", "setFilterSheet", "setFilterPerf", "selectPageSize",
   "clickPrev", "clickNext"}

\* C10: the summary counts the whole store, whatever the view state is.
C10_SummaryOverFullStore ==
  LET s == summary
      All == 1..Len(interns)
  IN /\ s.total = Len(interns)
     /\ s.green = Cardinality({k \in All : interns[k].sheetStatus = "Green"})
     /\ s.red = Cardinality({k \in All : interns[k].sheetStatus = "Red"})
     /\ s.black = Cardinality({k \in All : interns[k].sheetStatus = "Black"})
     /\ s.green + s.red + s.black = s.total
     /\ s.active = Cardinality({k \in All : interns[k].statusActivity = "Active"})
     /\ s.inactive = s.total - s.active
     /\ s.excelYes + s.excelNo = s.total
     /\ s.good + s.weak = s.total
     /\ s.repurposedYes + s.repurposedNo = s.total
     /\ s.tasksCompleted =
          Cardinality({k \in All : /\ interns[k].aiChatAdded
                                   /\ interns[k].dataMiningGC
                                   /\ interns[k].speakersCount >= interns[k].speakersTarget})
     /\ last.op \in ViewHandlers => s = summaryOf(prev.interns)

\* A filter hides part of the store, on a later page, and the summary still
\* counts every record.
C10_Witness ==
  /\ Len(filtered) < Len(interns)
  /\ page > 1
  /\ LET s == summary
     IN s.total = Len(interns) /\ s.tasksCompleted >= 1 /\ s.black >= 1

\* ------------------------------------------------------------ variant B views

\* b.startDate.localeCompare(a.startDate) on ISO dates, as day numbers
RECURSIVE insertByStartDateDesc(_, _)
insertByStartDateDesc(sorted, x) ==
  IF sorted = <<>> THEN <<x>>
  ELSE IF Head(sorted).startDate < x.startDate
       THEN <<x>> \o sorted
       ELSE <<Head(sorted)>> \o insertByStartDateDesc(Tail(sorted), x)

RECURSIVE sortByStartDateDesc(_)
sortByStartDateDesc(s) ==
  IF s = <<>> THEN <<>>
  ELSE insertByStartDateDesc(sortByStartDateDesc(SubSeq(s, 1, Len(s) - 1)), s[Len(s)])

matchesDept(i, d) == IF d = "All" THEN TRUE ELSE i.department = d
matchesStatus(i, st) == IF st = "All" THEN TRUE ELSE i.status = st
matchesSearchB(i, text) ==
  LET q == toLowerCase(trim(text))
  IN IF q = <<>> THEN TRUE
     ELSE \/ includes(toLowerCase(i.name), q)
          \/ includes(toLowerCase(i.email), q)
          \/ includes(toLowerCase(i.mentor), q)
          \/ includes(toLowerCase(EnumText(i.department)), q)

filteredBOf(list, text, d, st) ==
  LET a == SelectSeqOf(list, {i \in Elems(list) : matchesDept(i, d)})
      b == SelectSeqOf(a, {i \in Elems(a) : matchesStatus(i, st)})
      c == SelectSeqOf(b, {i \in Elems(b) : matchesSearchB(i, text)})
  IN sortByStartDateDesc(c)

filteredB == filteredBOf(internsB, searchB, dept, status)

\* Math.round(num / den), den > 0: the integer nearest to the quotient, a
\* half going up.
Round(num, den) == (2 * num + den) \div (2 * den)

\* interns.reduce((s, i) => s + i.score, 0)
RECURSIVE SumOfScores(_)
SumOfScores(list) ==
  IF list = <<>> THEN 0
  ELSE SumOfScores(SubSeq(list, 1, Len(list) - 1)) + list[Len(list)].score

\* avgScore with Math.floor for Math.round
statsOf_FloorAverage(list) ==
  [ active |-> Count(list, {i \in Elems(list) : i.status = "Active"}),
    offers |-> Count(list, {i \in Elems(list) : i.status = "Offer"}),
    completed |-> Count(list, {i \in Elems(list) : i.status = "Completed"}),
    avgScore |-> IF Len(list) # 0
                 THEN SumOfScores(list) \div Len(list)
                 ELSE 0 ]

statsOf(list) ==
  [ active |-> Count(list, {i \in Elems(list) : i.status = "Active"}),
    offers |-> Count(list, {i \in Elems(list) : i.status = "Offer"}),
    completed |-> Count(list, {i \in Elems(list) : i.status = "Completed"}),
    avgScore |-> IF Len(list) # 0
                 THEN Round(SumOfScores(list), Len(list))
                 ELSE 0 ]

stats == statsOf(internsB)

\* ------------------------------------------------------------ variant B handlers

\* What the user types into the mentor input, and picks in the date input.
Mentors == { <<>>, <<"M","."," ","N","g">> }
StartDays == {0, 7}

\* e.target.value of the score number input: the empty string, or the
\* decimal text of an integer (min and max only mark the entry invalid).
ScoreEntries ==
  { [empty |-> TRUE,  value |-> 0],
    [empty |-> FALSE, value |-> 0 - 5],
    [empty |-> FALSE, value |-> 55],
    [empty |-> FALSE, value |-> 150] }

\* Number(e.target.value || 0)
ScoreOf(e) == IF e.empty THEN 0 ELSE e.value

\* Math.random().toString(36).slice(2, 9), for two values of Math.random()
RandomIds == {"i", "4fzzzxj"}

setFormName(v) ==
  /\ Record("setFormName", NoId, v)
  /\ form' = [form EXCEPT !.name = v]
  /\ UNCHANGED <<varsA, internsB, searchB, dept, status, open>>

setFormEmail(v) ==
  /\ Record("setFormEmail", NoId, v)
  /\ form' = [form EXCEPT !.email = v]
  /\ UNCHANGED <<varsA, internsB, searchB, dept, status, open>>

setFormDepartment(v) ==
  /\ Record("setFormDepartment", NoId, v)
  /\ form' = [form EXCEPT !.department = v]
  /\ UNCHANGED <<varsA, internsB, searchB, dept, status, open>>

setFormMentor(v) ==
  /\ Record("setFormMentor", NoId, v)
  /\ form' = [form EXCEPT !.mentor = v]
  /\ UNCHANGED <<varsA, internsB, searchB, dept, status, open>>

setFormStartDate(v) ==
  /\ Record("setFormStartDate", NoId, v)
  /\ form' = [form EXCEPT !.startDate = v]
  /\ UNCHANGED <<varsA, internsB, searchB, dept, status, open>>

setFormStatus(v) ==
  /\ Record("setFormStatus", NoId, v)
  /\ form' = [form EXCEPT !.status = v]
  /\ UNCHANGED <<varsA, internsB, searchB, dept, status, open>>

setFormScore(entry) ==
  /\ Record("setFormScore", NoId, entry)
  /\ form' = [form EXCEPT !.score = ScoreOf(entry)]
  /\ UNCHANGED <<varsA, internsB, searchB, dept, status, open>>

\* "Add Intern", Cancel, and the dialog's onOpenChange
setOpen(v) ==
  /\ Record("setOpen", NoId, v)
  /\ open' = v
  /\ UNCHANGED <<varsA, internsB, searchB, dept, status, form>>

\* { id, ...form }
internOf(id, f) ==
  [ id |-> id, name |-> f.name, email |-> f.email, department |-> f.department,
    mentor |-> f.mentor, startDate |-> f.startDate, status |-> f.status,
    score |-> f.score ]

\* addIntern without its test of name and email
addIntern_NoGuard(id) ==
  /\ Record("addIntern", NoId, id)
  /\ internsB' = <<internOf(id, form)>> \o internsB
  /\ open' = FALSE
  /\ form' = initialForm
  /\ UNCHANGED <<varsA, searchB, dept, status>>

\* id is what Math.random() gives; the form is reset with today's date.
addIntern(id) ==
  /\ Record("addIntern", NoId, id)
  /\ IF form.name = <<>> \/ form.email = <<>>
     THEN UNCHANGED <<internsB, open, form>>
     ELSE /\ internsB' = <<internOf(id, form)>> \o internsB
          /\ open' = FALSE
          /\ form' = initialForm
  /\ UNCHANGED <<varsA, searchB, dept, status>>

setSearchB(text) ==
  /\ Record("setSearchB", NoId, text)
  /\ searchB' = text
  /\ UNCHANGED <<varsA, internsB, dept, status, open, form>>

setDept(v) ==
  /\ Record("setDept", NoId, v)
  /\ dept' = v
  /\ UNCHANGED <<varsA, internsB, searchB, status, open, form>>

setStatus(v) ==
  /\ Record("setStatus", NoId, v)
  /\ status' = v
  /\ UNCHANGED <<varsA, internsB, searchB, dept, open, form>>

\* "Export CSV": onClick={() => exportToCsv(filtered)}
clickExportB ==
  /\ Record("exportToCsvB", NoId, exportToCsvB(filteredB))
  /\ UNCHANGED <<varsA, varsB>>

\* ------------------------------------------------------------ variant B session

\* Variant B's page alone: variant A's page is not mounted.
InitB ==
  /\ now = 1
  /\ interns = <<>>
  /\ search = <<>>
  /\ filterSheet = "All"
  /\ filterPerf = "All"
  /\ page = 1
  /\ pageSize = InitialPageSize
  /\ internsB = seedInterns
  /\ searchB = <<>>
  /\ dept = "All"
  /\ status = "All"
  /\ open = FALSE
  /\ form = initialForm
  /\ last = [op |-> "initB", id |-> NoId, arg |-> Null]
  /\ prev = NoSnapshot
  /\ nops = 0

BudgetB == nops < MaxOpsB

NextB ==
  \/ BudgetB /\ \E v \in Names : setFormName(v)
  \/ BudgetB /\ \E v \in Emails : setFormEmail(v)
  \/ BudgetB /\ \E v \in {"Design", "HR"} : setFormDepartment(v)
  \/ BudgetB /\ \E v \in Mentors : setFormMentor(v)
  \/ BudgetB /\ \E v \in StartDays : setFormStartDate(v)
  \/ BudgetB /\ \E v \in {"Offer", "Completed"} : setFormStatus(v)
  \/ BudgetB /\ \E e \in ScoreEntries : setFormScore(e)
  \/ BudgetB /\ \E v \in BOOLEAN : setOpen(v)
  \/ BudgetB /\ \E id \in RandomIds : addIntern(id)
  \/ BudgetB /\ \E q \in {<<>>, <<"n","g">>} : setSearchB(q)
  \/ BudgetB /\ \E v \in {"All", "Design"} : setDept(v)
  \/ BudgetB /\ \E v \in {"All", "Offer"} : setStatus(v)
  \/ BudgetB /\ clickExportB

SpecB == InitB /\ [][NextB]_vars

\* ------------------------------------------------------------ the filters as functions

(***************************************************************************)
(* SpecFilter: a store and a view state are drawn, of variant A or of      *)
(* variant B, and the variant's filtered memo is computed once.            *)
(***************************************************************************)
SampleQueries ==
  { <<>>, <<" "," ">>, <<" ","A","N"," ">>, <<"@","x">>, <<"w","a","r">>,
    <<"n","g">> }

\* name, email and segregation (variant A) or mentor (variant B)
SampleTexts ==
  { << <<"A","n","n">>, <<>>, <<>> >>,
    << <<>>, <<"a","@","X">>, <<>> >>,
    << <<>>, <<>>, <<"M","."," ","N","g">> >>,
    << <<>>, <<>>, <<>> >> }

SampleA ==
  { [ id |-> NoId, name |-> t[1], email |-> t[2], statusActivity |-> "Active",
      excelSubmitted |-> "Yes", aiChatAdded |-> FALSE, dataMiningGC |-> FALSE,
      speakersCount |-> 0, speakersTarget |-> 100, performance |-> pf,
      segregation |-> IF t[3] = <<>> THEN Null ELSE "Warning",
      sheetStatus |-> sh, dataRepurposed |-> "No" ] :
    t \in SampleTexts, pf \in PerformanceT, sh \in {"Green", "Black"} }

SampleB ==
  { [ id |-> "0", name |-> t[1], email |-> t[2], department |-> d,
      mentor |-> t[3], startDate |-> 0, status |-> st, score |-> 80 ] :
    t \in SampleTexts, d \in {"Engineering", "Design"}, st \in {"Active", "Offer"} }

\* Stores of up to MaxStore records; position k gets the id a single batch
\* gives it (variant A) or a distinct id and start date (variant B).
StoresA ==
  UNION { { [k \in 1..n |-> [f[k] EXCEPT !.id = [ts |-> 1, idx |-> k - 1]]] :
            f \in [1..n -> SampleA] } : n \in 0..MaxStore }

StoresB ==
  UNION { { [k \in 1..n |-> [f[k] EXCEPT !.id = StringOfNat(k), !.startDate = k]] :
            f \in [1..n -> SampleB] } : n \in 0..MaxStore }

InitFilter ==
  /\ now = 1 /\ page = 1 /\ pageSize = InitialPageSize /\ nops = 0
  /\ prev = <<>>
  /\ \/ /\ interns \in StoresA
        /\ search \in SampleQueries
        /\ filterSheet \in {"All", "Green", "Black"}
        /\ filterPerf \in {"All", "Good"}
        /\ internsB = <<>> /\ searchB = <<>> /\ dept = "All" /\ status = "All"
        /\ open = FALSE /\ form = initialForm
        /\ last = [op |-> "drawnA", id |-> NoId, arg |-> <<>>]
     \/ /\ internsB \in StoresB
        /\ searchB \in SampleQueries
        /\ dept \in {"All", "Design"}
        /\ status \in {"All", "Offer"}
        /\ open = FALSE /\ form = initialForm
        /\ interns = <<>> /\ search = <<>> /\ filterSheet = "All" /\ filterPerf = "All"
        /\ last = [op |-> "drawnB", id |-> NoId, arg |-> <<>>]

computeFiltered ==
  /\ last.op = "drawnA"
  /\ last' = [op |-> "filtered", id |-> NoId, arg |-> filtered]
  /\ UNCHANGED <<varsA, varsB, prev, nops>>

computeFilteredB ==
  /\ last.op = "drawnB"
  /\ last' = [op |-> "filteredB", id |-> NoId, arg |-> filteredB]
  /\ UNCHANGED <<varsA, varsB, prev, nops>>

NextFilter == computeFiltered \/ computeFilteredB

SpecFilter == InitFilter /\ [][NextFilter]_vars

\* ------------------------------------------------------------ C8

\* text without its leading and trailing spaces
Stripped(text) ==
  LET Inked == {k \in 1..Len(text) : text[k] # " "}
  IN IF Inked = {} THEN <<>>
     ELSE SubSeq(text, CHOOSE k \in Inked : \A j \in Inked : k <= j,
                       CHOOSE k \in Inked : \A j \in Inked : k >= j)

\* q occurs in field, letter case aside
ContainsCI(field, q) ==
  \E off \in 0..(Len(field) - Len(q)) :
    \A j \in 1..Len(q) : ToLowerChar(field[off + j]) = ToLowerChar(q[j])

Occurrences(list, r) == Cardinality({k \in 1..Len(list) : list[k] = r})

SatisfiesA(r) ==
  /\ filterSheet = "All" \/ r.sheetStatus = filterSheet
  /\ filterPerf = "All" \/ r.performance = filterPerf
  /\ \/ Stripped(search) = <<>>
     \/ ContainsCI(r.name, Stripped(search))
     \/ ContainsCI(r.email, Stripped(search))
     \/ r.segregation # Null /\ ContainsCI(EnumText(r.segregation), Stripped(search))

SatisfiesB(r) ==
  /\ dept = "All" \/ r.department = dept
  /\ status = "All" \/ r.status = status
  /\ \/ Stripped(searchB) = <<>>
     \/ ContainsCI(r.name, Stripped(searchB))
     \/ ContainsCI(r.email, Stripped(searchB))
     \/ ContainsCI(r.mentor, Stripped(searchB))
     \/ ContainsCI(EnumText(r.department), Stripped(searchB))

\* C8: the filtered view holds exactly the records of the store that pass
\* every filter not set to "All" and, for a non-empty trimmed query, contain
\* it in a searched field, each as often as the store holds it; with every
\* filter "All" and an empty query it holds every record.
C8_FilteredIsExactlyTheMatches ==
  /\ last.op = "filtered" =>
       /\ \A r \in Elems(interns) \cup Elems(last.arg) :
            Occurrences(last.arg, r) =
              IF SatisfiesA(r) THEN Occurrences(interns, r) ELSE 0
       /\ (filterSheet = "All" /\ filterPerf = "All" /\ Stripped(search) = <<>>)
            => Len(last.arg) = Len(interns)
  /\ last.op = "filteredB" =>
       /\ \A r \in Elems(internsB) \cup Elems(last.arg) :
            Occurrences(last.arg, r) =
              IF SatisfiesB(r) THEN Occurrences(internsB, r) ELSE 0
       /\ (dept = "All" /\ status = "All" /\ Stripped(searchB) = <<>>)
            => Len(last.arg) = Len(internsB)

\* Variant A: a query that only a segregation answers, under a sheet
\* filter, keeps one record of two.
C8_Witness ==
  /\ last.op = "filtered"
  /\ search = <<"w","a","r">>
  /\ filterSheet = "Black"
  /\ Len(interns) = 2
  /\ Len(last.arg) = 1
  /\ last.arg[1].segregation = "Warning"

\* Variant B: a query that only a mentor answers, under a status filter,
\* keeps one record of two.
C8_WitnessB ==
  /\ last.op = "filteredB"
  /\ searchB = <<"n","g">>
  /\ status = "Offer"
  /\ Len(internsB) = 2
  /\ Len(last.arg) = 1
  /\ last.arg[1].department = "Design"
  /\ last.arg[1].mentor # <<>>

\* ------------------------------------------------------------ pagination as a function

(***************************************************************************)
(* SpecPaginate: a filtered sequence of up to MaxTotal rows (the rows are  *)
(* 1, 2, ..., so that a row tells its position) under one of the page      *)
(* sizes the select offers, paged through with Next from page 1.           *)
(***************************************************************************)
OfferedPageSizes == {25, 50, 100}

InitPaginate ==
  /\ now = 1 /\ nops = 0 /\ prev = <<>>
  /\ interns = <<>> /\ search = <<>> /\ filterSheet = "All" /\ filterPerf = "All"
  /\ internsB = <<>> /\ searchB = <<>> /\ dept = "All" /\ status = "All"
  /\ open = FALSE /\ form = initialForm
  /\ page = 1
  /\ pageSize \in OfferedPageSizes
  /\ \E total \in 0..MaxTotal :
       last = [op |-> "rows", id |-> NoId, arg |-> [k \in 1..total |-> k]]

showNextPage ==
  /\ page < totalPagesOf(Len(last.arg), pageSize)
  /\ page' = nextPageOf(page, totalPagesOf(Len(last.arg), pageSize))
  /\ UNCHANGED <<interns, search, filterSheet, filterPerf, pageSize, now,
                 varsB, last, prev, nops>>

NextPaginate == showNextPage

SpecPaginate == InitPaginate /\ [][NextPaginate]_vars

\* ------------------------------------------------------------ C9

RECURSIVE PagesJoined(_, _, _, _)
PagesJoined(rows, size, p, n) ==
  IF p > n THEN <<>>
  ELSE paginatedOf(rows, p, size) \o PagesJoined(rows, size, p + 1, n)

\* C9: page p is the slice [(p-1)*size, p*size) of the filtered sequence;
\* every page but the last has size rows, the last has
\* total - size*(totalPages-1), and pages 1..totalPages joined in order are
\* the filtered sequence; totalPages = max(1, ceil(total / size)).
C9_PagesPartitionTheRows ==
  last.op = "rows" =>
    LET rows == last.arg
        total == Len(rows)
        n == totalPagesOf(total, pageSize)
        shown == paginatedOf(rows, page, pageSize)
    IN /\ n >= 1
       /\ n * pageSize >= total
       /\ n > 1 => (n - 1) * pageSize < total
       /\ page \in 1..n
       /\ Len(shown) = IF page < n THEN pageSize ELSE total - pageSize * (n - 1)
       /\ \A k \in 1..Len(shown) : shown[k] = rows[(page - 1) * pageSize + k]
       /\ PagesJoined(rows, pageSize, 1, n) = rows

\* The last of three or more pages, with fewer rows than the page size.
C9_Witness ==
  /\ last.op = "rows"
  /\ page >= 3
  /\ page = totalPagesOf(Len(last.arg), pageSize)
  /\ Len(paginatedOf(last.arg, page, pageSize)) \in 1..(pageSize - 1)

\* No rows at all: one page, and it is empty.
C9_WitnessEmpty ==
  /\ last.op = "rows"
  /\ last.arg = <<>>
  /\ totalPagesOf(0, pageSize) = 1
  /\ paginatedOf(last.arg, page, pageSize) = <<>>

\* ------------------------------------------------------------ C11

\* Every record the store held before the last handler is at the same
\* distance from the end of the store, with the id it had.
IdsKept ==
  /\ Len(interns) >= Len(prev.interns)
  /\ \A k \in 1..Len(prev.interns) :
       interns[k + Len(interns) - Len(prev.interns)].id = prev.interns[k].id

\* C11: no two records of the store have the same id, and no handler
\* changes the id of a record the store already held.
C11_IdsUniqueAndKept == UniqueIds /\ IdsKept

\* The part of C11 that holds: ids, once assigned, are never changed.
C11_IdsNeverChange == IdsKept

\* A batch add in the millisecond of the seed: two records with one id.
C11_Collision ==
  /\ last.op = "addBlankRows"
  /\ \E k1, k2 \in 1..Len(interns) : k1 # k2 /\ interns[k1].id = interns[k2].id

\* ------------------------------------------------------------ C12

InlineEdits ==
  {"toggleAiChat", "toggleDataMining", "updateSpeakers", "setSheetStatus",
   "setStatusActivity", "setExcelSubmitted", "setDataRepurposed",
   "setPerformance", "setSegregation", "setName", "setEmail"}

\* The positions at which the last handler changed the store.
Changed == {k \in 1..Len(interns) : interns[k] # prev.interns[k]}

\* C12: an inline edit leaves the length and the order of the store as they
\* were and changes at most one record.
C12_EditChangesAtMostOneRecord ==
  last.op \in InlineEdits =>
    /\ Len(interns) = Len(prev.interns)
    /\ \A k \in 1..Len(interns) : interns[k].id = prev.interns[k].id
    /\ Cardinality(Changed) <= 1

\* What holds of an inline edit: length and order are kept, and only the
\* records that have the id of the call are changed.
C12_EditChangesOnlyMatchingIds ==
  last.op \in InlineEdits =>
    /\ Len(interns) = Len(prev.interns)
    /\ \A k \in 1..Len(interns) : interns[k].id = prev.interns[k].id
    /\ Changed \subseteq Touched

\* One toggle changed two records that share an id.
C12_TwoRecordsChanged ==
  /\ last.op = "toggleAiChat"
  /\ Cardinality(Changed) = 2
  /\ Changed = Touched

\* ------------------------------------------------------------ reading a CSV text

(***************************************************************************)
(* A reader of CSV text in which every cell is in double quotes, written   *)
(* apart from exportToCsv: a cell ends at a quote that no quote follows, a *)
(* doubled quote inside it is one quote, a comma after the closing quote   *)
(* starts the next cell and a newline the next row.  The result is the     *)
(* table of cells, and the empty table for a text of another form.         *)
(***************************************************************************)
\* The place of the quote that closes a cell whose text starts at j, or 0.
RECURSIVE ClosingQuote(_, _)
ClosingQuote(text, j) ==
  IF j > Len(text) THEN 0
  ELSE IF text[j] # "\"" THEN ClosingQuote(text, j + 1)
  ELSE IF j < Len(text) /\ text[j + 1] = "\"" THEN ClosingQuote(text, j + 2)
  ELSE j

RECURSIVE Undoubled(_)
Undoubled(x) ==
  IF x = <<>> THEN <<>>
  ELSE IF Len(x) >= 2 /\ x[1] = "\"" /\ x[2] = "\""
       THEN <<"\"">> \o Undoubled(SubSeq(x, 3, Len(x)))
       ELSE <<x[1]>> \o Undoubled(Tail(x))

\* The row that starts at i: its cells, and the place where the next row
\* starts (past the end of the text for the last row).
RECURSIVE ReadRow(_, _)
ReadRow(text, i) ==
  LET close == IF i > Len(text) \/ text[i] # "\"" THEN 0 ELSE ClosingQuote(text, i + 1)
      cell == Undoubled(SubSeq(text, i + 1, close - 1))
      Malformed == [ok |-> FALSE, row |-> <<>>, next |-> 0]
  IN IF close = 0 THEN Malformed
     ELSE IF close = Len(text)
          THEN [ok |-> TRUE, row |-> <<cell>>, next |-> close + 1]
     ELSE IF text[close + 1] = "\n" /\ close + 1 < Len(text)
          THEN [ok |-> TRUE, row |-> <<cell>>, next |-> close + 2]
     ELSE IF text[close + 1] = ","
          THEN LET rest == ReadRow(text, close + 2)
               IN [ok |-> rest.ok, row |-> <<cell>> \o rest.row, next |-> rest.next]
     ELSE Malformed

RECURSIVE ReadRows(_, _)
ReadRows(text, i) ==
  LET r == ReadRow(text, i)
  IN IF ~r.ok THEN <<>>
     ELSE IF r.next > Len(text) THEN <<r.row>>
     ELSE LET rest == ReadRows(text, r.next)
          IN IF rest = <<>> THEN <<>> ELSE <<r.row>> \o rest

CsvTable(text) == ReadRows(text, 1)

\* The cells a record of variant A shows in the export's columns.
CellsA(r) ==
  << r.name, r.email, TextOf(r.statusActivity), TextOf(r.excelSubmitted),
     TextOf(IF r.aiChatAdded THEN "Yes" ELSE "No"),
     TextOf(IF r.dataMiningGC THEN "Yes" ELSE "No"),
     StringOfInt(r.speakersCount), TextOf(r.performance),
     IF r.segregation \in SegregationT THEN TextOf(r.segregation) ELSE <<>>,
     TextOf(r.sheetStatus), TextOf(r.dataRepurposed) >>

CellsB(r) ==
  << r.name, r.email, TextOf(r.department), r.mentor, toISODate(r.startDate),
     TextOf(r.status), StringOfInt(r.score) >>

\* ------------------------------------------------------------ a session of either page

(***************************************************************************)
(* SpecPages: a session of variant A's page or of variant B's page.  The   *)
(* page that is not mounted never runs a handler; variant A's store is     *)
(* empty exactly in a session of variant B (the seed is never empty and no *)
(* handler removes a record).                                              *)
(***************************************************************************)
OnPageA == interns # <<>>

InitPages == Init \/ InitB

NextPages ==
  \/ OnPageA /\ Next
  \/ ~OnPageA /\ NextB

SpecPages == InitPages /\ [][NextPages]_vars

\* ------------------------------------------------------------ C13

\* C13 as stated (variant A): the data rows of the exported CSV are the
\* rows the table shows, in displayed order: one per rendered row, none for
\* a record on another page.
C13_ExportIsWhatIsShown ==
  last.op = "exportToCsv" =>
    Tail(CsvTable(last.arg)) = [k \in 1..Len(paginated) |-> CellsA(paginated[k])]

\* C13, amended: the data rows of the exported CSV are the filtered rows in
\* filtered order; in variant B these are the rows the table shows, in
\* variant A they are the rows of every page.
C13_ExportIsEveryFilteredRow ==
  /\ last.op = "exportToCsv" =>
       Tail(CsvTable(last.arg)) = [k \in 1..Len(filtered) |-> CellsA(filtered[k])]
  /\ last.op = "exportToCsvB" =>
       Tail(CsvTable(last.arg)) = [k \in 1..Len(filteredB) |-> CellsB(filteredB[k])]

\* Variant A: an export of more filtered rows than the page shows; the CSV
\* has a data row for each of them.
C13_Witness ==
  /\ last.op = "exportToCsv"
  /\ Len(paginated) >= 1
  /\ Len(filtered) > Len(paginated)
  /\ Len(CsvTable(last.arg)) - 1 = Len(filtered)

\* Variant B: an export under a search that hides a record.
C13_WitnessB ==
  /\ last.op = "exportToCsvB"
  /\ Len(filteredB) \in 1..(Len(internsB) - 1)
  /\ Len(CsvTable(last.arg)) - 1 = Len(filteredB)

\* ------------------------------------------------------------ exportToCsv as a function

(***************************************************************************)
(* SpecCsv: an ordered list of up to MaxStore records is drawn, of variant *)
(* A or of variant B, and exported twice.  The texts in the records hold   *)
(* double quotes, a comma and a newline.                                   *)
(***************************************************************************)
SaidHi == <<"H","e"," ","s","a","i","d"," ","\"","h","i","\"">>

CsvTexts == { <<>>, SaidHi, <<"a",",","b">>, <<"x","\n","\"">> }

CsvSampleA ==
  { [generateIntern(d, 1, 0) EXCEPT !.name = n, !.email = <<"a","@","x">>] :
    d \in GenDraws, n \in CsvTexts }

CsvSampleB ==
  { internOf("i", [ name |-> n, email |-> <<"a","@","x">>, department |-> "HR",
                    mentor |-> <<"M","."," ","N","g">>, startDate |-> 7,
                    status |-> "Offboarded", score |-> sc ]) :
    n \in CsvTexts, sc \in {0 - 5, 80} }

InitCsv ==
  /\ now = 1 /\ page = 1 /\ pageSize = InitialPageSize /\ nops = 0
  /\ prev = <<>>
  /\ search = <<>> /\ filterSheet = "All" /\ filterPerf = "All"
  /\ searchB = <<>> /\ dept = "All" /\ status = "All"
  /\ open = FALSE /\ form = initialForm
  /\ \/ /\ \E n \in 0..MaxStore : interns \in [1..n -> CsvSampleA]
        /\ internsB = <<>>
        /\ last = [op |-> "rowsA", id |-> NoId, arg |-> <<>>]
     \/ /\ \E n \in 0..MaxStore : internsB \in [1..n -> CsvSampleB]
        /\ interns = <<>>
        /\ last = [op |-> "rowsB", id |-> NoId, arg |-> <<>>]

exportRows ==
  /\ last.op = "rowsA"
  /\ last' = [op |-> "csv", id |-> NoId, arg |-> exportToCsv(interns)]
  /\ UNCHANGED <<varsA, varsB, prev, nops>>

exportRowsAgain ==
  /\ last.op = "csv"
  /\ last' = [op |-> "csvAgain", id |-> NoId, arg |-> exportToCsv(interns)]
  /\ prev' = last.arg
  /\ UNCHANGED <<varsA, varsB, nops>>

exportRowsB ==
  /\ last.op = "rowsB"
  /\ last' = [op |-> "csvB", id |-> NoId, arg |-> exportToCsvB(internsB)]
  /\ UNCHANGED <<varsA, varsB, prev, nops>>

exportRowsBAgain ==
  /\ last.op = "csvB"
  /\ last' = [op |-> "csvBAgain", id |-> NoId, arg |-> exportToCsvB(internsB)]
  /\ prev' = last.arg
  /\ UNCHANGED <<varsA, varsB, nops>>

NextCsv == exportRows \/ exportRowsAgain \/ exportRowsB \/ exportRowsBAgain

SpecCsv == InitCsv /\ [][NextCsv]_vars

\* ------------------------------------------------------------ C14

\* the cell of He said "hi", as the claim writes it
SaidHiCell == <<"\"","H","e"," ","s","a","i","d"," ","\"","\"","h","i","\"","\"","\"">>

\* C14: the export of n records is n + 1 rows joined by newlines, every
\* cell in double quotes with its own quotes doubled: the header row of the
\* variant, then one row per record in input order, booleans as Yes / No
\* and an absent segregation as the empty cell; a second export of the same
\* list is the same text.
C14_CsvIsHeaderAndOneRowPerRecord ==
  /\ last.op \in {"csv", "csvAgain"} =>
       LET table == CsvTable(last.arg)
       IN /\ Len(table) = Len(interns) + 1
          /\ table[1] = headerA
          /\ \A k \in 1..Len(interns) :
               /\ table[k + 1] = CellsA(interns[k])
               /\ table[k + 1][5] = TextOf(IF interns[k].aiChatAdded THEN "Yes" ELSE "No")
               /\ interns[k].segregation = Null => table[k + 1][9] = <<>>
               /\ interns[k].name = SaidHi => includes(last.arg, SaidHiCell)
  /\ last.op \in {"csvB", "csvBAgain"} =>
       LET table == CsvTable(last.arg)
       IN /\ Len(table) = Len(internsB) + 1
          /\ table[1] = headerB
          /\ \A k \in 1..Len(internsB) :
               /\ table[k + 1] = CellsB(internsB[k])
               /\ internsB[k].name = SaidHi => includes(last.arg, SaidHiCell)
  /\ last.op \in {"csvAgain", "csvBAgain"} => last.arg = prev

\* Variant A: two records, the first named He said "hi" with no
\* segregation, exported twice.
C14_Witness ==
  /\ last.op = "csvAgain"
  /\ Len(interns) = 2
  /\ interns[1].name = SaidHi
  /\ interns[1].segregation = Null
  /\ interns[2].aiChatAdded
  /\ Len(CsvTable(last.arg)) = 3
  /\ includes(last.arg, SaidHiCell)

\* Variant B: a negative score and a name with a newline in it.
C14_WitnessB ==
  /\ last.op = "csvBAgain"
  /\ Len(internsB) = 2
  /\ internsB[2].score < 0
  /\ includes(internsB[2].name, <<"\n">>)
  /\ Len(CsvTable(last.arg)) = 3

\* No record: the export is the header row alone.
C14_WitnessEmpty ==
  /\ last.op = "csv"
  /\ interns = <<>>
  /\ CsvTable(last.arg) = <<headerA>>

\* ------------------------------------------------------------ C15

\* The positions of the records the last generateSeedInterns call made.
Created ==
  IF last.op \in {"init", "addBlankRows"}
  THEN 1..(Len(interns) - Len(prev.interns))
  ELSE {}

\* C15: a record generateSeedInterns makes is Black when its segregation is
\* Terminated or Relocated, and Green when its speakersCount is at least
\* its speakersTarget and its segregation is neither.
C15_ConsistentAtCreation ==
  \A k \in Created :
    /\ interns[k].segregation \in Disqualifying => interns[k].sheetStatus = "Black"
    /\ (/\ interns[k].speakersCount >= interns[k].speakersTarget
        /\ interns[k].segregation \notin Disqualifying)
         => interns[k].sheetStatus = "Green"

\* The half of C15 that holds: Terminated and Relocated records are made
\* Black.
C15_BlackAtCreation ==
  \A k \in Created :
    interns[k].segregation \in Disqualifying => interns[k].sheetStatus = "Black"

\* A batch add made a Red record whose count is above its target.
C15_RedAboveTarget ==
  /\ last.op = "addBlankRows"
  /\ \E k \in Created :
       /\ interns[k].speakersCount >= interns[k].speakersTarget
       /\ interns[k].segregation \notin Disqualifying
       /\ interns[k].sheetStatus = "Red"

\* ------------------------------------------------------------ C16

\* C16: every record of variant B's store has a score in 0..100, whatever
\* was entered in the score field before addIntern, and so has avgScore.
C16_ScoreInRange ==
  /\ \A k \in 1..Len(internsB) : internsB[k].score \in 0..100
  /\ stats.avgScore \in 0..100

\* What holds of the score field: an empty entry is 0, any other entry is
\* the number entered, and addIntern stores the form's score as it is.
C16_ScoreIsTheEntry ==
  /\ last.op = "setFormScore" =>
       form.score = IF last.arg.empty THEN 0 ELSE last.arg.value
  /\ (last.op = "addIntern" /\ Len(internsB) > Len(prev.internsB)) =>
       internsB[1].score = prev.form.score

\* addIntern stored a score above 100, and one below 0.
C16_ScoreAboveHundred ==
  /\ last.op = "addIntern"
  /\ Len(internsB) > Len(prev.internsB)
  /\ internsB[1].score > 100

C16_ScoreBelowZero ==
  /\ last.op = "addIntern"
  /\ Len(internsB) > Len(prev.internsB)
  /\ internsB[1].score < 0

\* ------------------------------------------------------------ stats as a function

(***************************************************************************)
(* SpecStats: variant B's store is drawn, of up to MaxStore records with   *)
(* any status and scores that include 0, a negative one and one above 100, *)
(* and the search text and the filters are then set.                       *)
(***************************************************************************)
StatsSample ==
  { [ id |-> "0", name |-> <<"A","n","n">>, email |-> <<"a","@","x">>,
      department |-> IF sc > 50 THEN "Design" ELSE "HR", mentor |-> <<>>,
      startDate |-> 0, status |-> st, score |-> sc ] :
    st \in StatusT, sc \in {0 - 5, 0, 55, 80, 150} }

InitStats ==
  /\ now = 1 /\ page = 1 /\ pageSize = InitialPageSize /\ nops = 0
  /\ interns = <<>> /\ search = <<>> /\ filterSheet = "All" /\ filterPerf = "All"
  /\ \E n \in 0..MaxStore : internsB \in [1..n -> StatsSample]
  /\ searchB = <<>> /\ dept = "All" /\ status = "All"
  /\ open = FALSE /\ form = initialForm
  /\ last = [op |-> "store", id |-> NoId, arg |-> Null]
  /\ prev = NoSnapshot

NextStats ==
  \/ nops < 1 /\ \E q \in {<<"z">>, <<"a","n">>} : setSearchB(q)
  \/ nops < 1 /\ \E v \in {"Design", "Product"} : setDept(v)
  \/ nops < 1 /\ \E v \in {"Offer", "Offboarded"} : setStatus(v)

SpecStats == InitStats /\ [][NextStats]_vars

\* ------------------------------------------------------------ C17

\* The sum of the scores of the records at the places in P.
RECURSIVE ScoreTotal(_)
ScoreTotal(P) ==
  IF P = {} THEN 0
  ELSE LET k == CHOOSE k \in P : TRUE
       IN internsB[k].score + ScoreTotal(P \ {k})

\* C17: avgScore is 0 for the empty store and otherwise the integer
\* nearest to sum / n, a half going up; active, offers and completed count
\* the records of the store with that status; none of them depends on the
\* search text or the filters.
C17_StatsOverStore ==
  LET s == stats
      n == Len(internsB)
      sum == ScoreTotal(1..n)
  IN /\ n = 0 => s.avgScore = 0
     /\ n > 0 => /\ 2 * n * s.avgScore - n <= 2 * sum
                 /\ 2 * sum < 2 * n * s.avgScore + n
     /\ s.active = Cardinality({k \in 1..n : internsB[k].status = "Active"})
     /\ s.offers = Cardinality({k \in 1..n : internsB[k].status = "Offer"})
     /\ s.completed = Cardinality({k \in 1..n : internsB[k].status = "Completed"})
     /\ last.op \in {"setSearchB", "setDept", "setStatus"} => s = statsOf(prev.internsB)

\* Two records whose mean is a half, which goes up, under a filter that
\* hides one of them.
C17_Witness ==
  /\ last.op = "setStatus"
  /\ Len(internsB) = 2
  /\ Len(filteredB) = 1
  /\ ScoreTotal({1, 2}) = 135
  /\ stats.avgScore = 68
  /\ stats.offers = 1

\* A negative half also goes up: -5 and 0 give -2.
C17_WitnessNegativeHalf ==
  /\ Len(internsB) = 2
  /\ ScoreTotal({1, 2}) = 0 - 5
  /\ stats.avgScore = 0 - 2

\* The empty store: avgScore is 0.
C17_WitnessEmpty ==
  /\ internsB = <<>>
  /\ last.op = "setSearchB"
  /\ stats = [active |-> 0, offers |-> 0, completed |-> 0, avgScore |-> 0]

\* ------------------------------------------------------------ C18

\* Variant B's store holds every record it held before the last handler, at
\* the same distance from its end.
KeptB ==
  /\ Len(internsB) >= Len(prev.internsB)
  /\ \A k \in 1..Len(prev.internsB) :
       internsB[k + Len(internsB) - Len(prev.internsB)].id = prev.internsB[k].id

\* C18: no handler removes a record: the store never gets shorter and every
\* id in it stays in it.  A batch add puts its BatchCount records (50 in
\* the source) before the records the store held, and an addIntern with a
\* name and an email puts its one record first; the records the store held
\* are unchanged and in their order.
C18_StoreOnlyGrows ==
  /\ IdsKept
  /\ KeptB
  /\ last.op = "addBlankRows" =>
       /\ Len(interns) = Len(prev.interns) + BatchCount
       /\ SubSeq(interns, BatchCount + 1, Len(interns)) = prev.interns
  /\ (last.op # "addBlankRows" /\ last.op # "init") =>
       Len(interns) = Len(prev.interns)
  /\ (last.op = "addIntern" /\ prev.form.name # <<>> /\ prev.form.email # <<>>) =>
       /\ Len(internsB) = Len(prev.internsB) + 1
       /\ Tail(internsB) = prev.internsB
  /\ (last.op \notin {"addIntern", "init", "initB"}) => internsB = prev.internsB

\* Variant A: a batch add after an inline edit; the edited store follows
\* the new records.
C18_Witness ==
  /\ last.op = "addBlankRows"
  /\ prev.last.op \in InlineEdits
  /\ prev.interns # prev.before
  /\ Len(interns) = SeedCount + BatchCount
  /\ SubSeq(interns, BatchCount + 1, Len(interns)) = prev.interns

\* Variant B: addIntern put the form's record before the four seed records.
C18_WitnessB ==
  /\ last.op = "addIntern"
  /\ Len(internsB) = 5
  /\ internsB[1].name = prev.form.name
  /\ internsB[1].id \in RandomIds
  /\ Tail(internsB) = seedInterns

\* ------------------------------------------------------------ C19

\* The fields of a record of variant A.
FieldsA ==
  {"id", "name", "email", "statusActivity", "excelSubmitted", "aiChatAdded",
   "dataMiningGC", "speakersCount", "speakersTarget", "performance",
   "segregation", "sheetStatus", "dataRepurposed"}

\* Record k is as it was before the last handler, but for the fields in F.
SameBut(k, F) ==
  \A f \in FieldsA \ F : interns[k][f] = prev.interns[k][f]

\* C19: updateSpeakers changes sheetStatus to Green or not at all; it
\* leaves it as it was when the stored count is below the target or the
\* segregation is Terminated or Relocated; and it changes no field other
\* than speakersCount and sheetStatus.
C19_UpdateSpeakersOnlyTurnsGreen ==
  last.op = "updateSpeakers" =>
    /\ Len(interns) = Len(prev.interns)
    /\ \A k \in 1..Len(interns) :
         /\ DOMAIN interns[k] = FieldsA
         /\ SameBut(k, {"speakersCount", "sheetStatus"})
         /\ interns[k].sheetStatus \in {prev.interns[k].sheetStatus, "Green"}
         /\ (\/ interns[k].speakersCount < interns[k].speakersTarget
             \/ interns[k].segregation \in Disqualifying)
              => interns[k].sheetStatus = prev.interns[k].sheetStatus

\* A Green record at or above its target was taken below it and is still
\* Green.
C19_Witness ==
  /\ last.op = "updateSpeakers"
  /\ \E k \in Touched :
       /\ prev.interns[k].sheetStatus = "Green"
       /\ prev.interns[k].speakersCount >= prev.interns[k].speakersTarget
       /\ interns[k].speakersCount < interns[k].speakersTarget
       /\ interns[k].sheetStatus = "Green"

\* A Red record set to Relocated (and so Black) was then taken above its
\* target: it is still Black.
C19_WitnessRelocated ==
  /\ last.op = "updateSpeakers"
  /\ prev.last.op = "setSegregation"
  /\ \E k \in Touched :
       /\ interns[k].segregation = "Relocated"
       /\ prev.interns[k].speakersCount < prev.interns[k].speakersTarget
       /\ interns[k].speakersCount >= interns[k].speakersTarget
       /\ interns[k].sheetStatus = "Black"

\* ------------------------------------------------------------ C20

Toggles == {"toggleAiChat", "toggleDataMining"}

PlainSetters ==
  Toggles \cup {"setName", "setEmail", "setStatusActivity", "setExcelSubmitted",
                "setPerformance", "setDataRepurposed", "setSheetStatus"}

\* The field a plain setter writes.
OwnField(op) ==
  CASE op = "toggleAiChat" -> "aiChatAdded"
    [] op = "toggleDataMining" -> "dataMiningGC"
    [] op = "setName" -> "name"
    [] op = "setEmail" -> "email"
    [] op = "setStatusActivity" -> "statusActivity"
    [] op = "setExcelSubmitted" -> "excelSubmitted"
    [] op = "setPerformance" -> "performance"
    [] op = "setDataRepurposed" -> "dataRepurposed"
    [] op = "setSheetStatus" -> "sheetStatus"

\* C20: a plain setter writes its own field of the records with the id it
\* was called with (the value given, or the negation for a toggle) and no
\* other field of them; records with another id are unchanged; a toggle
\* called twice for one id gives back the store as it was.
C20_PlainSettersWriteOwnField ==
  last.op \in PlainSetters =>
    /\ Len(interns) = Len(prev.interns)
    /\ \A k \in 1..Len(interns) :
         IF prev.interns[k].id = last.id
         THEN /\ DOMAIN interns[k] = FieldsA
              /\ SameBut(k, {OwnField(last.op)})
              /\ interns[k][OwnField(last.op)] =
                   IF last.op \in Toggles
                   THEN ~prev.interns[k][OwnField(last.op)]
                   ELSE last.arg
         ELSE interns[k] = prev.interns[k]
    /\ (last.op \in Toggles /\ prev.last.op = last.op /\ prev.last.id = last.id)
         => interns = prev.before

\* The AI Chat checkbox of one row was clicked twice: the store is as it
\* was before the first click, and was not so in between.
C20_Witness ==
  /\ last.op = "toggleAiChat"
  /\ prev.last.op = "toggleAiChat"
  /\ prev.last.id = last.id
  /\ prev.interns # prev.before
  /\ interns = prev.before

\* setExcelSubmitted(id, Yes) on a Red record with a checkbox ticked: the
\* record is still Red.
C20_WitnessNoSideEffect ==
  /\ last.op = "setExcelSubmitted"
  /\ last.arg = "Yes"
  /\ \E k \in Touched :
       /\ prev.interns[k].excelSubmitted = "No"
       /\ interns[k].excelSubmitted = "Yes"
       /\ interns[k].dataMiningGC
       /\ interns[k].sheetStatus = "Red"

\* ------------------------------------------------------------ C21

\* The fields of the add-intern form.
FormFields ==
  {"name", "email", "department", "mentor", "startDate", "status", "score"}

\* C21: addIntern with an empty name or an empty email changes neither the
\* store nor the form nor the dialog's open flag; with both filled in it
\* puts one record with the form's fields before the store, closes the
\* dialog and resets the form (empty name, email and mentor, the first
\* department, status Active, score 80).
C21_AddIntern ==
  last.op = "addIntern" =>
    IF prev.form.name = <<>> \/ prev.form.email = <<>>
    THEN /\ internsB = prev.internsB
         /\ form = prev.form
         /\ open = prev.open
    ELSE /\ Len(internsB) = Len(prev.internsB) + 1
         /\ Tail(internsB) = prev.internsB
         /\ DOMAIN internsB[1] = FormFields \cup {"id"}
         /\ \A f \in FormFields : internsB[1][f] = prev.form[f]
         /\ internsB[1].id = last.arg
         /\ open = FALSE
         /\ form.name = <<>> /\ form.email = <<>> /\ form.mentor = <<>>
         /\ form.department = "Engineering"
         /\ form.status = "Active"
         /\ form.score = 80

\* Save in the open dialog with a name and an email: the record is first
\* in the store, the dialog is closed, the form is reset.
C21_Witness ==
  /\ last.op = "addIntern"
  /\ prev.open
  /\ prev.form.name # <<>> /\ prev.form.email # <<>>
  /\ Len(internsB) = 5
  /\ internsB[1].name = prev.form.name
  /\ internsB[1].email = prev.form.email
  /\ ~open
  /\ form = initialForm

\* addIntern in the open dialog with a name and no email: nothing changed.
C21_WitnessNoOp ==
  /\ last.op = "addIntern"
  /\ prev.open
  /\ prev.form.name # <<>> /\ prev.form.email = <<>>
  /\ prev.form.score # 80
  /\ internsB = seedInterns
  /\ open
  /\ form = prev.form

====
